---- MODULE Spec2Model ----
(***************************************************************************)
(* Kolam Ikan (src-tauri): the entry versioning engine, the staging set,   *)
(* the pending-block ledger and the bridge-key codec of commands.rs, over  *)
(* the SQLite schema of database.rs.                                       *)
(*                                                                         *)
(* Tables are sets of rows.  Every command holds the connection mutex for  *)
(* its whole body (db.conn.lock() is its first statement and the guard is  *)
(* dropped on return), so a command is one atomic action.                  *)
(***************************************************************************)
EXTENDS Integers, Sequences, FiniteSets, TLC

VARIABLES
    schema,          \* "fresh": tables made by initialize_schema; "migrated": user_id added by run_migrations
    foreign_keys,    \* whether the SQLite build enforces FOREIGN KEY clauses
    streams,         \* table streams
    entries,         \* table entries
    entry_versions,  \* table entry_versions
    pending_blocks,  \* table pending_blocks
    now,             \* chrono::Utc::now().timestamp_millis()
    uuid,            \* number of ids uuid::Uuid::new_v4() has handed out
    ret,             \* the last command and what it returned to its caller
    commits,         \* history: successful commit_entry_version calls per entry id
    committed,       \* history: <<entry id, version number, content>> of every successful commit_entry_version call
    given,           \* history: the staged_context_ids each create_pending_block call was given, per block id
    issued,          \* history: every <<stream_id, sequence_id>> an entry was created with
    mutex,           \* Database.conn: the caller holding the Mutex, or Unlocked
    calls,           \* each caller's position in commit_entry_version and its local variables
    pasted,          \* the text pasted into the bridge-key codec, by its parts
    found,           \* what extract_bridge_key last returned for input_text
    valid,           \* the expected_key validate_bridge_key was last given for input_text, and its result
    generated        \* what generate_bridge_key last returned

histvars == <<given, issued>>
callvars == <<mutex, calls>>
dbvars == <<schema, foreign_keys, streams, entries, entry_versions, pending_blocks,
            now, uuid, ret, commits, committed, given, issued, mutex, calls>>
codecvars == <<pasted, found, valid, generated>>
vars == <<schema, foreign_keys, streams, entries, entry_versions, pending_blocks,
          now, uuid, ret, commits, committed, given, issued, mutex, calls,
          pasted, found, valid, generated>>

(***************************************************************************)
(* Bounds of the model.                                                    *)
(***************************************************************************)
\* ids handed out by uuid::Uuid::new_v4() after the tutorial's three
MaxUuid == 2
\* clock readings after start-up
MaxClock == 1
\* blanks at each whitespace position of a pasted marker
MaxWs == 1
\* the random draws of generate_bridge_key are sampled at every RngStep-th index
RngStep == 9

\* Option: None is the empty sequence, Some(x) the sequence of x alone
None == <<>>
Some(x) == <<x>>
NoRows == "QueryReturnedNoRows"
NotNull == "NOT NULL constraint failed: user_id"
ForeignKey == "FOREIGN KEY constraint failed"
CheckRole == "CHECK constraint failed: role"

\* ids the tutorial takes at start-up: the stream, its first and its second entry
TutorialIds == 3
Ids == 1..(TutorialIds + MaxUuid)
\* an id no row has
NoSuchId == 0
Contents == {"docA"}
Roles == {"user", "system"}
Messages == {Some("msg")}

\* the callers that may invoke a command at the same time
Callers == {"t1", "t2"}
\* the Mutex with no holder
Unlocked == "unlocked"
\* a caller outside commit_entry_version, its local variables unset
Idle == [pc |-> "idle", entry_id |-> NoSuchId, commit_message |-> None,
         version_id |-> NoSuchId, content_str |-> "", current_version |-> 0]
\* a statement that SQLite could not carry out
IoError == "disk I/O error"

Uncalled == [op |-> "none", args |-> <<>>, ok |-> TRUE, val |-> None]
Ok(op, args, val) == [op |-> op, args |-> args, ok |-> TRUE, val |-> val]
Err(op, args, e) == [op |-> op, args |-> args, ok |-> FALSE, val |-> e]

(***************************************************************************)
(* Queries.                                                                *)
(***************************************************************************)
StreamIds == {s.id : s \in streams}
EntryIds == {e.id : e \in entries}
EntriesOf(stream_id) == {e \in entries : e.stream_id = stream_id}
VersionsOf(entry_id) == {v \in entry_versions : v.entry_id = entry_id}
BlocksOf(stream_id) == {p \in pending_blocks : p.stream_id = stream_id}
EntryRow(entry_id) == CHOOSE e \in entries : e.id = entry_id

Max(S) == CHOOSE x \in S : \A y \in S : y <= x

\* SELECT COALESCE(MAX(sequence_id), 0) FROM entries WHERE stream_id = ?1
MaxSeq(stream_id) ==
    IF EntriesOf(stream_id) = {} THEN 0
    ELSE Max({e.sequence_id : e \in EntriesOf(stream_id)})

RECURSIVE OrderBySequence(_)
\* ORDER BY sequence_id ASC
OrderBySequence(rows) ==
    IF rows = {} THEN <<>>
    ELSE LET first == CHOOSE r \in rows : \A o \in rows : r.sequence_id <= o.sequence_id
         IN  <<first>> \o OrderBySequence(rows \ {first})

\* INSERT ... without user_id: the column is NOT NULL with no default unless
\* run_migrations added it with DEFAULT 'default-user'
InsertWithoutUserId == schema = "migrated"

(***************************************************************************)
(* Start-up: Database::new, then create_tutorial_stream on an empty store. *)
(***************************************************************************)
(***************************************************************************)
(* JSON documents in TEXT columns.  A serde_json::Value is written as the  *)
(* text of its document; content and content_snapshot hold such texts.     *)
(***************************************************************************)
\* Value::default()
Null == "null"
\* a text that is no JSON document (a document cut off in the middle)
Malformed == "{\"doc\":"
\* the documents the commands store
JsonDocuments == Contents \cup {"tutorial1", "tutorial2", Null}

\* mutant: the text is handed on as it is stored
from_str_valueAsStored(content_str) == content_str

\* serde_json::from_str(&content_str).unwrap_or_default()
from_str_value(content_str) ==
    IF content_str \in JsonDocuments THEN content_str ELSE Null

\* Ok(Entry { .., content, .. }) of a row of entries
Entry(row) == [row EXCEPT !.content = from_str_value(@)]
\* Ok(EntryVersion { .., content_snapshot: content, .. }) of a row of entry_versions
EntryVersion(row) == [row EXCEPT !.content_snapshot = from_str_value(@)]

TutorialStream == [id |-> 1, updated_at |-> 0]
TutorialEntries ==
    { [id |-> 2, stream_id |-> 1, content |-> "tutorial1", sequence_id |-> 1,
       version_head |-> 0, is_staged |-> 0, updated_at |-> 0],
      [id |-> 3, stream_id |-> 1, content |-> "tutorial2", sequence_id |-> 2,
       version_head |-> 0, is_staged |-> 0, updated_at |-> 1] }

DbInit ==
    /\ schema \in {"fresh", "migrated"}
    /\ foreign_keys \in BOOLEAN
    /\ streams = {TutorialStream}
    /\ entries = TutorialEntries
    /\ entry_versions = {}
    /\ pending_blocks = {}
    /\ now = 0
    /\ uuid = TutorialIds
    /\ ret = Uncalled
    /\ commits = [i \in Ids |-> 0]
    /\ committed = {}
    /\ given = [i \in Ids |-> None]
    /\ issued = {<<e.stream_id, e.sequence_id>> : e \in TutorialEntries}
    /\ mutex = Unlocked
    /\ calls = [t \in Callers |-> Idle]

(***************************************************************************)
(* The clock.                                                              *)
(***************************************************************************)
Tick ==
    /\ now < MaxClock
    /\ now' = now + 1
    /\ UNCHANGED <<schema, foreign_keys, streams, entries, entry_versions,
                   pending_blocks, uuid, ret, commits, committed>>
    /\ UNCHANGED <<given, issued, mutex, calls>>
    /\ UNCHANGED codecvars

\* UPDATE streams SET updated_at = ?1 WHERE id = ?2
TouchStream(stream_id) ==
    {IF s.id = stream_id THEN [s EXCEPT !.updated_at = now] ELSE s : s \in streams}

(***************************************************************************)
(* Stream commands.                                                        *)
(***************************************************************************)
create_stream ==
    /\ uuid < TutorialIds + MaxUuid
    /\ IF InsertWithoutUserId
       THEN /\ streams' = streams \cup {[id |-> uuid + 1, updated_at |-> now]}
            /\ uuid' = uuid + 1
            /\ ret' = Ok("create_stream", <<>>, uuid + 1)
       ELSE /\ ret' = Err("create_stream", <<>>, NotNull)
            /\ UNCHANGED <<streams, uuid>>
    /\ UNCHANGED <<schema, foreign_keys, entries, entry_versions, pending_blocks,
                   now, commits, committed>>
    /\ UNCHANGED <<given, issued, mutex, calls>>
    /\ UNCHANGED codecvars

\* ON DELETE CASCADE of entries.stream_id, pending_blocks.stream_id and
\* entry_versions.entry_id, when the build enforces foreign keys
delete_stream(stream_id) ==
    /\ streams' = {s \in streams : s.id # stream_id}
    /\ IF foreign_keys
       THEN /\ entries' = entries \ EntriesOf(stream_id)
            /\ pending_blocks' = pending_blocks \ BlocksOf(stream_id)
            /\ entry_versions' =
                 {v \in entry_versions :
                    \A e \in EntriesOf(stream_id) : v.entry_id # e.id}
       ELSE UNCHANGED <<entries, pending_blocks, entry_versions>>
    /\ ret' = Ok("delete_stream", <<stream_id>>, None)
    /\ UNCHANGED <<schema, foreign_keys, now, uuid, commits, committed>>
    /\ UNCHANGED <<given, issued, mutex, calls>>
    /\ UNCHANGED codecvars

\* SELECT .. FROM entries WHERE stream_id = ?1 ORDER BY sequence_id ASC, each row
\* returned as an Entry
EntriesInOrder(stream_id) ==
    LET rows == OrderBySequence(EntriesOf(stream_id))
    IN  [i \in 1..Len(rows) |-> Entry(rows[i])]

get_stream_details(stream_id) ==
    /\ IF stream_id \notin StreamIds
       THEN ret' = Err("get_stream_details", <<stream_id>>, NoRows)
       ELSE \E stream \in {s \in streams : s.id = stream_id} :
                ret' = Ok("get_stream_details", <<stream_id>>,
                          [stream |-> stream, entries |-> EntriesInOrder(stream_id)])
    /\ UNCHANGED <<schema, foreign_keys, streams, entries, entry_versions,
                   pending_blocks, now, uuid, commits, committed>>
    /\ UNCHANGED <<given, issued, mutex, calls>>
    /\ UNCHANGED codecvars

(***************************************************************************)
(* Entry commands.                                                         *)
(***************************************************************************)
\* let sequence_id = max_seq + 1;
next_sequence_id(max_seq) == max_seq + 1

create_entry(stream_id, role, content) ==
    /\ uuid < TutorialIds + MaxUuid
    /\ LET sequence_id == next_sequence_id(MaxSeq(stream_id))
           args == <<stream_id, role, content>>
           failure == IF ~InsertWithoutUserId THEN Some(NotNull)
                      ELSE IF role \notin {"user", "ai"} THEN Some(CheckRole)
                      ELSE IF foreign_keys /\ stream_id \notin StreamIds THEN Some(ForeignKey)
                      ELSE None
       IN  IF failure # None
           THEN /\ ret' = Err("create_entry", args, failure[1])
                /\ UNCHANGED <<entries, streams, uuid, issued>>
           ELSE /\ entries' = entries \cup
                      {[id |-> uuid + 1, stream_id |-> stream_id, content |-> content,
                        sequence_id |-> sequence_id, version_head |-> 0,
                        is_staged |-> 0, updated_at |-> now]}
                /\ streams' = TouchStream(stream_id)
                /\ uuid' = uuid + 1
                /\ issued' = issued \cup {<<stream_id, sequence_id>>}
                /\ ret' = Ok("create_entry", args,
                             [id |-> uuid + 1, sequence_id |-> sequence_id])
    /\ UNCHANGED <<schema, foreign_keys, entry_versions, pending_blocks, now, commits, committed>>
    /\ UNCHANGED <<given, mutex, calls>>
    /\ UNCHANGED codecvars

\* mutant: the UPDATE starts the version numbering over
SetContentResettingHead(entry_id, content) ==
    {IF e.id = entry_id
     THEN [e EXCEPT !.content = content, !.updated_at = now, !.version_head = 0]
     ELSE e : e \in entries}

\* mutant: the UPDATE takes the entry out of the staging set
SetContentUnstaging(entry_id, content) ==
    {IF e.id = entry_id
     THEN [e EXCEPT !.content = content, !.updated_at = now, !.is_staged = 0]
     ELSE e : e \in entries}

\* UPDATE entries SET content = ?1, updated_at = ?2 WHERE id = ?3
SetContent(entry_id, content) ==
    {IF e.id = entry_id THEN [e EXCEPT !.content = content, !.updated_at = now] ELSE e :
       e \in entries}

update_entry_content(entry_id, content) ==
    /\ entries' = SetContent(entry_id, content)
    \* WHERE id = (SELECT stream_id FROM entries WHERE id = ?2)
    /\ streams' = IF entry_id \in EntryIds
                  THEN TouchStream(EntryRow(entry_id).stream_id)
                  ELSE streams
    /\ ret' = Ok("update_entry_content", <<entry_id, content>>, None)
    /\ UNCHANGED <<schema, foreign_keys, entry_versions, pending_blocks, now, uuid, commits, committed>>
    /\ UNCHANGED <<given, issued, mutex, calls>>
    /\ UNCHANGED codecvars

\* params![if is_staged { 1 } else { 0 }, entry_id]
staged_param(is_staged) == IF is_staged THEN 1 ELSE 0

\* mutant: the flag is flipped instead of set
SetStagedFlipped(entry_id, flag) ==
    {IF e.id = entry_id THEN [e EXCEPT !.is_staged = 1 - @] ELSE e : e \in entries}

\* UPDATE entries SET is_staged = ?1 WHERE id = ?2
SetStaged(entry_id, flag) ==
    {IF e.id = entry_id THEN [e EXCEPT !.is_staged = flag] ELSE e : e \in entries}

toggle_entry_staging(entry_id, is_staged) ==
    /\ entries' = SetStaged(entry_id, staged_param(is_staged))
    /\ ret' = Ok("toggle_entry_staging", <<entry_id, is_staged>>, None)
    /\ UNCHANGED <<schema, foreign_keys, streams, entry_versions, pending_blocks,
                   now, uuid, commits, committed>>
    /\ UNCHANGED <<given, issued, mutex, calls>>
    /\ UNCHANGED codecvars

delete_entry(entry_id) ==
    /\ entries' = {e \in entries : e.id # entry_id}
    /\ entry_versions' = IF foreign_keys
                         THEN entry_versions \ VersionsOf(entry_id)
                         ELSE entry_versions
    /\ ret' = Ok("delete_entry", <<entry_id>>, None)
    /\ UNCHANGED <<schema, foreign_keys, streams, pending_blocks, now, uuid, commits, committed>>
    /\ UNCHANGED <<given, issued, mutex, calls>>
    /\ UNCHANGED codecvars

\* mutant: the WHERE clause does not compare is_staged
StagedEntriesOfAnyFlag(stream_id) ==
    LET rows == OrderBySequence(EntriesOf(stream_id))
    IN  [i \in 1..Len(rows) |-> [Entry(rows[i]) EXCEPT !.is_staged = TRUE]]

\* WHERE stream_id = ?1 AND is_staged = 1 ORDER BY sequence_id ASC, each row
\* returned as an Entry with is_staged: true
StagedEntries(stream_id) ==
    LET rows == OrderBySequence({e \in EntriesOf(stream_id) : e.is_staged = 1})
    IN  [i \in 1..Len(rows) |-> [Entry(rows[i]) EXCEPT !.is_staged = TRUE]]

get_staged_entries(stream_id) ==
    /\ ret' = Ok("get_staged_entries", <<stream_id>>, StagedEntries(stream_id))
    /\ UNCHANGED <<schema, foreign_keys, streams, entries, entry_versions,
                   pending_blocks, now, uuid, commits, committed>>
    /\ UNCHANGED <<given, issued, mutex, calls>>
    /\ UNCHANGED codecvars

\* mutant: WHERE id = ?1 in place of WHERE stream_id = ?1
ClearStagedById(stream_id) ==
    {IF e.id = stream_id THEN [e EXCEPT !.is_staged = 0] ELSE e : e \in entries}

\* mutant: the UPDATE has no WHERE clause
ClearStagedEverywhere(stream_id) == {[e EXCEPT !.is_staged = 0] : e \in entries}

\* UPDATE entries SET is_staged = 0 WHERE stream_id = ?1
ClearStaged(stream_id) ==
    {IF e.stream_id = stream_id THEN [e EXCEPT !.is_staged = 0] ELSE e : e \in entries}

clear_all_staging(stream_id) ==
    /\ entries' = ClearStaged(stream_id)
    /\ ret' = Ok("clear_all_staging", <<stream_id>>, None)
    /\ UNCHANGED <<schema, foreign_keys, streams, entry_versions, pending_blocks,
                   now, uuid, commits, committed>>
    /\ UNCHANGED <<given, issued, mutex, calls>>
    /\ UNCHANGED codecvars

(***************************************************************************)
(* Version commands.                                                       *)
(***************************************************************************)
\* mutant: the version number skips one
new_versionSkipping(current_version) == current_version + 2

\* let new_version = current_version + 1;
new_version(current_version) == current_version + 1

\* mutant: the UPDATE of version_head is left out
SetVersionHeadForgotten(entry_id, version) == entries

\* UPDATE entries SET version_head = ?1 WHERE id = ?2
SetVersionHead(entry_id, version) ==
    {IF e.id = entry_id THEN [e EXCEPT !.version_head = version] ELSE e : e \in entries}

\* mutant: the row takes the place of the versions the entry already has
InsertVersionReplacing(version) ==
    {v \in entry_versions : v.entry_id # version.entry_id} \cup {version}

\* INSERT INTO entry_versions (id, entry_id, version_number, content_snapshot, ..)
InsertVersion(version) == entry_versions \cup {version}

commit_entry_version(entry_id, commit_message) ==
    /\ uuid < TutorialIds + MaxUuid
    /\ LET args == <<entry_id, commit_message>>
       IN  IF entry_id \notin EntryIds
           THEN /\ ret' = Err("commit_entry_version", args, NoRows)
                /\ UNCHANGED <<entries, entry_versions, uuid, commits, committed>>
           ELSE LET row == EntryRow(entry_id)
                    version == [id |-> uuid + 1, entry_id |-> entry_id,
                                version_number |-> new_version(row.version_head),
                                content_snapshot |-> row.content,
                                commit_message |-> commit_message,
                                committed_at |-> now]
                IN  /\ entry_versions' = InsertVersion(version)
                    /\ entries' = SetVersionHead(entry_id, version.version_number)
                    /\ uuid' = uuid + 1
                    /\ commits' = [commits EXCEPT ![entry_id] = @ + 1]
                    /\ committed' = committed \cup
                           {<<e.id, version.version_number, e.content>> :
                              e \in {f \in entries : f.id = entry_id}}
                    /\ ret' = Ok("commit_entry_version", args, EntryVersion(version))
    /\ UNCHANGED <<schema, foreign_keys, streams, pending_blocks, now>>
    /\ UNCHANGED <<given, issued, mutex, calls>>
    /\ UNCHANGED codecvars

(***************************************************************************)
(* commit_entry_version statement by statement, for callers on several     *)
(* threads.  The connection is in autocommit mode (no transaction is       *)
(* opened), so each statement that succeeds is durable on its own.         *)
(***************************************************************************)
\* the pcs at which a caller holds the MutexGuard
CriticalSection == {"locked", "selected", "inserted"}
Inside(t) == calls[t].pc \in CriticalSection

\* the command is invoked on the caller's thread
Invoke(t, entry_id, commit_message) ==
    /\ calls[t] = Idle
    /\ calls' = [calls EXCEPT ![t] = [Idle EXCEPT !.pc = "waiting",
                                                  !.entry_id = entry_id,
                                                  !.commit_message = commit_message]]
    /\ UNCHANGED <<schema, foreign_keys, streams, entries, entry_versions,
                   pending_blocks, now, uuid, ret, commits, committed, given, issued, mutex>>
    /\ UNCHANGED codecvars

\* mutant: the lock is granted while another caller holds it
CanLockAlways(t) == TRUE

\* Mutex::lock blocks until no caller holds the guard
CanLock(t) == mutex = Unlocked

\* let conn = db.conn.lock()..; let now = ..; let version_id = uuid::Uuid::new_v4()
Lock(t) ==
    /\ calls[t].pc = "waiting"
    /\ CanLock(t)
    /\ uuid < TutorialIds + MaxUuid
    /\ mutex' = t
    /\ uuid' = uuid + 1
    /\ calls' = [calls EXCEPT ![t].pc = "locked", ![t].version_id = uuid + 1]
    /\ UNCHANGED <<schema, foreign_keys, streams, entries, entry_versions,
                   pending_blocks, now, ret, commits, committed, given, issued>>
    /\ UNCHANGED codecvars

\* the command returns: its MutexGuard is dropped
Return(t, result) ==
    /\ ret' = result
    /\ calls' = [calls EXCEPT ![t] = Idle]
    /\ mutex' = Unlocked

\* SELECT content, version_head FROM entries WHERE id = ?1
Select(t) ==
    /\ calls[t].pc = "locked"
    /\ LET args == <<calls[t].entry_id, calls[t].commit_message>>
           rows == {e \in entries : e.id = calls[t].entry_id}
       IN  IF rows = {}
           THEN Return(t, Err("commit_entry_version", args, NoRows))
           ELSE /\ \E row \in rows :
                     calls' = [calls EXCEPT ![t].pc = "selected",
                                            ![t].content_str = row.content,
                                            ![t].current_version = row.version_head]
                /\ UNCHANGED <<ret, mutex>>
    /\ UNCHANGED <<schema, foreign_keys, streams, entries, entry_versions,
                   pending_blocks, now, uuid, commits, committed, given, issued>>
    /\ UNCHANGED codecvars

\* the EntryVersion the call inserts and returns
VersionOf(t) ==
    [id |-> calls[t].version_id, entry_id |-> calls[t].entry_id,
     version_number |-> new_version(calls[t].current_version),
     content_snapshot |-> calls[t].content_str,
     commit_message |-> calls[t].commit_message, committed_at |-> now]

\* INSERT INTO entry_versions ..; executed tells whether SQLite carried it out
Insert(t, executed) ==
    /\ calls[t].pc = "selected"
    /\ LET args == <<calls[t].entry_id, calls[t].commit_message>>
       IN  IF executed
           THEN /\ entry_versions' = InsertVersion(VersionOf(t))
                /\ calls' = [calls EXCEPT ![t].pc = "inserted"]
                /\ UNCHANGED <<ret, mutex>>
           ELSE /\ Return(t, Err("commit_entry_version", args, IoError))
                /\ UNCHANGED entry_versions
    /\ UNCHANGED <<schema, foreign_keys, streams, entries, pending_blocks, now,
                   uuid, commits, committed, given, issued>>
    /\ UNCHANGED codecvars

\* UPDATE entries SET version_head = ?1 WHERE id = ?2; then Ok(EntryVersion {..})
Update(t, executed) ==
    /\ calls[t].pc = "inserted"
    /\ LET args == <<calls[t].entry_id, calls[t].commit_message>>
       IN  IF executed
           THEN /\ entries' = SetVersionHead(calls[t].entry_id, VersionOf(t).version_number)
                /\ commits' = [commits EXCEPT ![calls[t].entry_id] = @ + 1]
                /\ committed' = committed \cup
                       {<<e.id, VersionOf(t).version_number, e.content>> :
                          e \in {f \in entries : f.id = calls[t].entry_id}}
                /\ Return(t, Ok("commit_entry_version", args, EntryVersion(VersionOf(t))))
           ELSE /\ Return(t, Err("commit_entry_version", args, IoError))
                /\ UNCHANGED <<entries, commits, committed>>
    /\ UNCHANGED <<schema, foreign_keys, streams, entry_versions, pending_blocks,
                   now, uuid, given, issued>>
    /\ UNCHANGED codecvars

\* a command that runs as a whole once it holds the lock
Serialized(Command) == mutex = Unlocked /\ Command

(***************************************************************************)
(* Poisoning.  std::sync::Mutex is poisoned when a thread panics while it  *)
(* holds the guard; from then on lock() returns Err(PoisonError) to every  *)
(* caller, and no command clears the poison.                               *)
(***************************************************************************)
Poisoned == "poisoned"
\* e.to_string() of the PoisonError
PoisonError == "poisoned lock: another task failed inside"

\* the thread of a caller panics between two statements of its critical
\* section: the guard is dropped while unwinding and the command returns nothing
Panic(t) ==
    /\ Inside(t)
    /\ mutex' = Poisoned
    /\ calls' = [calls EXCEPT ![t] = Idle]
    /\ UNCHANGED <<schema, foreign_keys, streams, entries, entry_versions,
                   pending_blocks, now, uuid, ret, commits, committed, given, issued>>
    /\ UNCHANGED codecvars

\* mutant: the poison is ignored, the guard taken out of the error
IsPoisonedNever == FALSE

\* db.conn.lock() returns Err
IsPoisoned == mutex = Poisoned

\* .map_err(|e| e.to_string())? : the command returns the error at once
Refused(op, args) ==
    /\ ret' = Err(op, args, PoisonError)
    /\ UNCHANGED <<schema, foreign_keys, streams, entries, entry_versions,
                   pending_blocks, now, uuid, commits, committed, given, issued,
                   mutex, calls>>
    /\ UNCHANGED codecvars

\* commit_entry_version finds the mutex poisoned
LockFails(t) ==
    /\ calls[t].pc = "waiting"
    /\ IsPoisoned
    /\ ret' = Err("commit_entry_version",
                  <<calls[t].entry_id, calls[t].commit_message>>, PoisonError)
    /\ calls' = [calls EXCEPT ![t] = Idle]
    /\ UNCHANGED <<schema, foreign_keys, streams, entries, entry_versions,
                   pending_blocks, now, uuid, commits, committed, given, issued, mutex>>
    /\ UNCHANGED codecvars

\* let conn = db.conn.lock().map_err(|e| e.to_string())?; then the command's body
Locked(op, args, Command) ==
    IF IsPoisoned THEN Refused(op, args) ELSE mutex \notin Callers /\ Command

\* mutant: a number the entry has no version of falls back to all its versions
VersionRowsOrAll(entry_id, version_number) ==
    IF \E v \in VersionsOf(entry_id) : v.version_number = version_number
    THEN {v \in VersionsOf(entry_id) : v.version_number = version_number}
    ELSE VersionsOf(entry_id)

\* mutant: the WHERE clause does not compare version_number
VersionRowsOfAnyNumber(entry_id, version_number) == VersionsOf(entry_id)

\* SELECT content_snapshot FROM entry_versions WHERE entry_id = ?1 AND version_number = ?2
VersionRows(entry_id, version_number) ==
    {v \in VersionsOf(entry_id) : v.version_number = version_number}

revert_to_version(entry_id, version_number) ==
    /\ LET args == <<entry_id, version_number>>
           rows == VersionRows(entry_id, version_number)
       IN  IF rows = {}
           THEN /\ ret' = Err("revert_to_version", args, NoRows)
                /\ UNCHANGED entries
           ELSE \E v \in rows :
                    /\ entries' = SetContent(entry_id, v.content_snapshot)
                    /\ ret' = Ok("revert_to_version", args, None)
    /\ UNCHANGED <<schema, foreign_keys, streams, entry_versions, pending_blocks,
                   now, uuid, commits, committed>>
    /\ UNCHANGED <<given, issued, mutex, calls>>
    /\ UNCHANGED codecvars

\* ORDER BY version_number DESC: every order of the rows in which the numbers
\* do not grow (SQLite leaves the order of rows with equal numbers open)
OrderByVersionDesc(rows) ==
    {seq \in [1..Cardinality(rows) -> rows] :
        /\ \A i, j \in 1..Cardinality(rows) : i # j => seq[i] # seq[j]
        /\ \A i, j \in 1..Cardinality(rows) :
              i < j => seq[i].version_number >= seq[j].version_number}

get_entry_versions(entry_id) ==
    /\ \E versions \in OrderByVersionDesc(VersionsOf(entry_id)) :
          ret' = Ok("get_entry_versions", <<entry_id>>,
                    [i \in 1..Len(versions) |-> EntryVersion(versions[i])])
    /\ UNCHANGED <<schema, foreign_keys, streams, entries, entry_versions,
                   pending_blocks, now, uuid, commits, committed>>
    /\ UNCHANGED <<given, issued, mutex, calls>>
    /\ UNCHANGED codecvars

\* mutant: ORDER BY version_number ASC LIMIT 1
OldestVersions(entry_id) ==
    {v \in VersionsOf(entry_id) :
        \A w \in VersionsOf(entry_id) : v.version_number <= w.version_number}

\* ORDER BY version_number DESC LIMIT 1
LatestVersions(entry_id) ==
    {v \in VersionsOf(entry_id) :
        \A w \in VersionsOf(entry_id) : w.version_number <= v.version_number}

get_latest_version(entry_id) ==
    /\ IF VersionsOf(entry_id) = {}
       THEN ret' = Ok("get_latest_version", <<entry_id>>, None)
       ELSE \E v \in LatestVersions(entry_id) :
                ret' = Ok("get_latest_version", <<entry_id>>, Some(EntryVersion(v)))
    /\ UNCHANGED <<schema, foreign_keys, streams, entries, entry_versions,
                   pending_blocks, now, uuid, commits, committed>>
    /\ UNCHANGED <<given, issued, mutex, calls>>
    /\ UNCHANGED codecvars

\* mutant: a number the entry has no version of yields its latest version
VersionByNumberOrLatest(entry_id, version_number) ==
    IF \E v \in VersionsOf(entry_id) : v.version_number = version_number
    THEN {v \in VersionsOf(entry_id) : v.version_number = version_number}
    ELSE LatestVersions(entry_id)

\* SELECT id, entry_id, version_number, content_snapshot, commit_message, committed_at
\* FROM entry_versions WHERE entry_id = ?1 AND version_number = ?2
VersionByNumber(entry_id, version_number) ==
    {v \in VersionsOf(entry_id) : v.version_number = version_number}

get_version_by_number(entry_id, version_number) ==
    /\ LET args == <<entry_id, version_number>>
           rows == VersionByNumber(entry_id, version_number)
       IN  IF rows = {}
           THEN ret' = Ok("get_version_by_number", args, None)
           ELSE \E v \in rows :
                    ret' = Ok("get_version_by_number", args, Some(EntryVersion(v)))
    /\ UNCHANGED <<schema, foreign_keys, streams, entries, entry_versions,
                   pending_blocks, now, uuid, commits, committed>>
    /\ UNCHANGED <<given, issued, mutex, calls>>
    /\ UNCHANGED codecvars

(***************************************************************************)
(* Pending-block commands.                                                 *)
(***************************************************************************)
BridgeKeys == {"ab12", "xy9z"}
Directives == {"CRITIQUE"}
StagedIdLists == {<<>>, <<3, 2>>}

\* the elements of a JSON array of strings: "id","id"
RECURSIVE Elements(_)
Elements(ids) ==
    IF ids = <<>> THEN <<>>
    ELSE IF Len(ids) = 1 THEN <<"\"", ids[1], "\"">>
    ELSE <<"\"", ids[1], "\"", ",">> \o Elements(Tail(ids))

\* serde_json::to_string(&staged_context_ids): the text ["id","id"], by its tokens
to_string(ids) == <<"[">> \o Elements(ids) \o <<"]">>

\* the text is a JSON array of strings
IsArrayOfStrings(json) ==
    /\ Len(json) >= 2
    /\ json[1] = "["
    /\ json[Len(json)] = "]"
    /\ \/ Len(json) = 2
       \/ /\ Len(json) % 4 = 1
          /\ \A k \in 1..((Len(json) - 1) \div 4) :
                /\ json[4 * k - 2] = "\""
                /\ json[4 * k] = "\""
                /\ 4 * k + 1 < Len(json) => json[4 * k + 1] = ","

\* mutant: the ids are read back in reverse order
from_strReversed(json) ==
    IF IsArrayOfStrings(json)
    THEN [k \in 1..((Len(json) - 1) \div 4) |->
             json[4 * (((Len(json) - 1) \div 4) + 1 - k) - 1]]
    ELSE <<>>

\* serde_json::from_str(&context_ids_str).unwrap_or_default()
from_str(json) ==
    IF IsArrayOfStrings(json)
    THEN [k \in 1..((Len(json) - 1) \div 4) |-> json[4 * k - 1]]
    ELSE <<>>

\* the PendingBlock get_pending_block builds from a row
PendingBlock(row) == [row EXCEPT !.staged_context_ids = from_str(@)]

\* mutant: bridge_key is unique, the row replaces the block that has its key
InsertBlockReplacing(row) ==
    {p \in pending_blocks : p.bridge_key # row.bridge_key} \cup {row}

\* INSERT INTO pending_blocks (id, stream_id, bridge_key, staged_context_ids, ..)
InsertBlock(row) == pending_blocks \cup {row}

create_pending_block(stream_id, bridge_key, staged_context_ids, directive) ==
    /\ uuid < TutorialIds + MaxUuid
    /\ LET args == <<stream_id, bridge_key, staged_context_ids, directive>>
           failure == IF ~InsertWithoutUserId THEN Some(NotNull)
                      ELSE IF foreign_keys /\ stream_id \notin StreamIds THEN Some(ForeignKey)
                      ELSE None
           block == [id |-> uuid + 1, stream_id |-> stream_id, bridge_key |-> bridge_key,
                     staged_context_ids |-> staged_context_ids,
                     directive |-> directive, created_at |-> now]
           context_ids_json == to_string(staged_context_ids)
       IN  IF failure # None
           THEN /\ ret' = Err("create_pending_block", args, failure[1])
                /\ UNCHANGED <<pending_blocks, uuid, given>>
           ELSE /\ pending_blocks' =
                      InsertBlock([block EXCEPT !.staged_context_ids = context_ids_json])
                /\ uuid' = uuid + 1
                /\ given' = [given EXCEPT ![uuid + 1] = Some(staged_context_ids)]
                /\ ret' = Ok("create_pending_block", args, block)
    /\ UNCHANGED <<schema, foreign_keys, streams, entries, entry_versions, now, commits, committed>>
    /\ UNCHANGED <<issued, mutex, calls>>
    /\ UNCHANGED codecvars

\* WHERE stream_id = ?1 ORDER BY created_at DESC LIMIT 1: SQLite leaves the order
\* of rows with equal created_at unspecified, so any of them may come first
LatestBlocks(stream_id) ==
    {p \in BlocksOf(stream_id) : \A q \in BlocksOf(stream_id) : q.created_at <= p.created_at}

get_pending_block(stream_id) ==
    /\ IF BlocksOf(stream_id) = {}
       THEN ret' = Ok("get_pending_block", <<stream_id>>, None)
       ELSE \E p \in LatestBlocks(stream_id) :
                ret' = Ok("get_pending_block", <<stream_id>>, Some(PendingBlock(p)))
    /\ UNCHANGED <<schema, foreign_keys, streams, entries, entry_versions,
                   pending_blocks, now, uuid, commits, committed>>
    /\ UNCHANGED <<given, issued, mutex, calls>>
    /\ UNCHANGED codecvars

\* mutant: the blocks of the same stream go with it
DeleteBlockOfStream(pending_block_id) ==
    {p \in pending_blocks :
        \A q \in pending_blocks : q.id = pending_block_id => q.stream_id # p.stream_id}

\* DELETE FROM pending_blocks WHERE id = ?1
DeleteBlock(pending_block_id) == {p \in pending_blocks : p.id # pending_block_id}

delete_pending_block(pending_block_id) ==
    /\ pending_blocks' = DeleteBlock(pending_block_id)
    /\ ret' = Ok("delete_pending_block", <<pending_block_id>>, None)
    /\ UNCHANGED <<schema, foreign_keys, streams, entries, entry_versions,
                   now, uuid, commits, committed>>
    /\ UNCHANGED <<given, issued, mutex, calls>>
    /\ UNCHANGED codecvars

(***************************************************************************)
(* The database file is open to other writers, and the JSON columns are    *)
(* plain TEXT: a stored document can be replaced by a text that does not   *)
(* parse.                                                                  *)
(***************************************************************************)
\* the text of a staged id list cut off after its first element
MalformedIds == <<"[", "\"", 3, "\"", ",">>

\* entries.content TEXT NOT NULL
CorruptContent(entry_id) ==
    /\ entries' = {IF e.id = entry_id THEN [e EXCEPT !.content = Malformed] ELSE e :
                      e \in entries}
    /\ UNCHANGED <<schema, foreign_keys, streams, entry_versions, pending_blocks,
                   now, uuid, ret, commits, committed>>
    /\ UNCHANGED <<given, issued, mutex, calls>>
    /\ UNCHANGED codecvars

\* entry_versions.content_snapshot TEXT NOT NULL
CorruptSnapshot(version_id) ==
    /\ entry_versions' =
          {IF v.id = version_id THEN [v EXCEPT !.content_snapshot = Malformed] ELSE v :
             v \in entry_versions}
    /\ UNCHANGED <<schema, foreign_keys, streams, entries, pending_blocks,
                   now, uuid, ret, commits, committed>>
    /\ UNCHANGED <<given, issued, mutex, calls>>
    /\ UNCHANGED codecvars

\* pending_blocks.staged_context_ids TEXT NOT NULL
CorruptStagedIds(pending_block_id) ==
    /\ pending_blocks' =
          {IF p.id = pending_block_id THEN [p EXCEPT !.staged_context_ids = MalformedIds]
           ELSE p : p \in pending_blocks}
    /\ UNCHANGED <<schema, foreign_keys, streams, entries, entry_versions,
                   now, uuid, ret, commits, committed>>
    /\ UNCHANGED <<given, issued, mutex, calls>>
    /\ UNCHANGED codecvars

(***************************************************************************)
(* Bridge-key codec.  A text is a sequence of characters, each a string of *)
(* length one.                                                             *)
(***************************************************************************)
\* mutant: the alphabet starts with upper-case letters
charsWithUpperCase ==
    <<"A", "B", "C", "D", "E", "F", "G", "H", "I", "J", "K", "L", "M", "N", "O", "P", "Q", "R",
      "S", "T", "U", "V", "W", "X", "Y", "Z", "0", "1", "2", "3", "4", "5", "6", "7", "8", "9">>

\* let chars: Vec<char> = "abcdefghijklmnopqrstuvwxyz0123456789".chars().collect();
chars ==
    <<"a", "b", "c", "d", "e", "f", "g", "h", "i", "j", "k", "l", "m", "n", "o", "p", "q", "r", "s", "t", "u", "v", "w", "x", "y", "z", "0", "1", "2", "3", "4", "5", "6", "7", "8", "9">>
LowerCase ==
    <<"a", "b", "c", "d", "e", "f", "g", "h", "i", "j", "k", "l", "m", "n", "o", "p", "q", "r", "s", "t", "u", "v", "w", "x", "y", "z">>
UpperCase ==
    <<"A", "B", "C", "D", "E", "F", "G", "H", "I", "J", "K", "L", "M", "N", "O", "P", "Q", "R", "S", "T", "U", "V", "W", "X", "Y", "Z">>

Range(f) == {f[i] : i \in DOMAIN f}

\* char::to_lowercase on the characters the model uses: A-Z map to a-z
LowerChar(c) ==
    IF c \in Range(UpperCase)
    THEN LowerCase[CHOOSE i \in DOMAIN UpperCase : UpperCase[i] = c]
    ELSE c
\* str::to_lowercase
to_lowercase(str) == [i \in 1..Len(str) |-> LowerChar(str[i])]

Digits ==
    <<"0", "1", "2", "3", "4", "5", "6", "7", "8", "9">>
\* [a-zA-Z0-9]
IsKeyChar(c) == c \in Range(LowerCase) \cup Range(UpperCase) \cup Range(Digits)
\* \s
IsSpace(c) == c \in {" ", "\t", "\n", "\r"}

\* whether the literal lit stands in text at position i
LiteralAt(text, i, lit) ==
    /\ i >= 1
    /\ i + Len(lit) - 1 <= Len(text)
    /\ \A k \in 1..Len(lit) : text[i + k - 1] = lit[k]

\* the position after a literal at i, or 0 when it is not there
After(text, i, lit) == IF i > 0 /\ LiteralAt(text, i, lit) THEN i + Len(lit) ELSE 0

\* mutant: the pattern opens with a literal < only
OpenBracketLiteralOnly(text, i) ==
    IF LiteralAt(text, i, <<"<">>) THEN i + 1 ELSE 0

\* (?:<|&lt;)
OpenBracket(text, i) ==
    IF LiteralAt(text, i, <<"<">>) THEN i + 1
    ELSE After(text, i, <<"&", "l", "t", ";">>)

\* (?:>|&gt;)
CloseBracket(text, i) ==
    IF LiteralAt(text, i, <<">">>) THEN i + 1
    ELSE After(text, i, <<"&", "g", "t", ";">>)

\* \s* from i: the first position at or after i that holds no whitespace
SkipSpace(text, i) ==
    IF i = 0 THEN 0
    ELSE IF \E j \in i..Len(text) : ~IsSpace(text[j])
         THEN CHOOSE j \in i..Len(text) :
                  ~IsSpace(text[j]) /\ \A k \in i..(j - 1) : IsSpace(text[k])
         ELSE Len(text) + 1

\* mutant: [a-zA-Z0-9]* in place of [a-zA-Z0-9]+, an empty key matches
KeyEndOfPossiblyEmpty(text, i) ==
    IF i = 0 THEN 0
    ELSE IF \E j \in i..Len(text) : ~IsKeyChar(text[j])
         THEN CHOOSE j \in i..Len(text) :
                  ~IsKeyChar(text[j]) /\ \A k \in i..(j - 1) : IsKeyChar(text[k])
         ELSE Len(text) + 1

\* [a-zA-Z0-9]+ from i, greedy: the position after the run, or 0 when the run is empty
KeyEnd(text, i) ==
    IF i = 0 \/ i > Len(text) \/ ~IsKeyChar(text[i]) THEN 0
    ELSE IF \E j \in i..Len(text) : ~IsKeyChar(text[j])
         THEN CHOOSE j \in i..Len(text) :
                  ~IsKeyChar(text[j]) /\ \A k \in i..(j - 1) : IsKeyChar(text[k])
         ELSE Len(text) + 1

\* The pattern anchored at position i: capture group 1, or None.  Every
\* repetition is followed by a token none of its characters can start, so the
\* greedy scan is the only way the pattern can match from i.
\*   (?:<|&lt;)!-{2}\s*bridge\s*:\s*([a-zA-Z0-9]+)\s*-{2}(?:>|&gt;)
MatchAt(text, i) ==
    LET bang == After(text, OpenBracket(text, i), <<"!", "-", "-">>)
        word == After(text, SkipSpace(text, bang), <<"b", "r", "i", "d", "g", "e">>)
        colon == After(text, SkipSpace(text, word), <<":">>)
        key == SkipSpace(text, colon)
        keyEnd == KeyEnd(text, key)
        dashes == After(text, SkipSpace(text, keyEnd), <<"-", "-">>)
        close == IF dashes = 0 THEN 0 ELSE CloseBracket(text, dashes)
    IN  IF close = 0 THEN None
        ELSE Some(SubSeq(text, key, keyEnd - 1))

\* mutant: the match at the rightmost position at or after i that has one
LastMatch(text, i) ==
    LET starts == {j \in i..Len(text) : MatchAt(text, j) # None}
    IN  IF starts = {} THEN None ELSE MatchAt(text, Max(starts))

RECURSIVE FirstMatch(_, _)
\* the match at the leftmost position at or after i that has one
FirstMatch(text, i) ==
    IF i > Len(text) THEN None
    ELSE IF MatchAt(text, i) # None THEN MatchAt(text, i)
    ELSE FirstMatch(text, i + 1)

\* Regex::captures
captures(text) == FirstMatch(text, 1)

\* mutant: the expected key is compared as given
KeysEqualAsGiven(found_key, key) == to_lowercase(found_key) = key

\* found_key.as_str().to_lowercase() == expected_key.to_lowercase()
KeysEqual(found_key, key) == to_lowercase(found_key) = to_lowercase(key)

validate_bridge_key(text, key) ==
    LET c == captures(text)
    IN  IF c # None THEN KeysEqual(c[1], key) ELSE FALSE

extract_bridge_key(text) ==
    LET c == captures(text)
    IN  IF c # None THEN Some(to_lowercase(c[1])) ELSE None

(***************************************************************************)
(* The pasted text, kept by its parts: a marker-shaped middle between a    *)
(* prefix and a suffix.                                                    *)
(***************************************************************************)
Parts(prefix, open, bang, w1, word, w2, colon, w3, key, w4, dashes, close, suffix) ==
    [prefix |-> prefix, open |-> open, bang |-> bang, w1 |-> w1, word |-> word,
     w2 |-> w2, colon |-> colon, w3 |-> w3, key |-> key, w4 |-> w4,
     dashes |-> dashes, close |-> close, suffix |-> suffix]

\* the input_text argument of validate_bridge_key and extract_bridge_key
input_text ==
    pasted.prefix \o pasted.open \o pasted.bang \o pasted.w1 \o pasted.word \o
    pasted.w2 \o pasted.colon \o pasted.w3 \o pasted.key \o pasted.w4 \o
    pasted.dashes \o pasted.close \o pasted.suffix

Lt == <<"<">>
LtEntity == <<"&", "l", "t", ";">>
Gt == <<">">>
GtEntity == <<"&", "g", "t", ";">>
Bang == <<"!", "-", "-">>
Bridge == <<"b", "r", "i", "d", "g", "e">>
Colon == <<":">>
Dashes == <<"-", "-">>

\* n blanks
Blanks(n) == [i \in 1..n |-> " "]

NothingPasted ==
    Parts(<<>>, <<>>, <<>>, <<>>, <<>>, <<>>, <<>>, <<>>, <<>>, <<>>, <<>>, <<>>, <<>>)

SampleKeys == {<<"A", "b", "1", "2">>, <<"X", "Y", "9", "Z">>, <<"k">>}
PlainPrefixes == {<<>>, <<"s", "e", "e", " ">>}
\* a prefix that itself holds a well-formed marker, with key zz9
MarkerPrefix == <<"<", "!", "-", "-", "b", "r", "i", "d", "g", "e", ":", "z", "z", "9", "-", "-", ">", " ">>
Suffixes == {<<>>, <<" ", "o", "k">>}
ExpectedKeys == {<<"a", "b", "1", "2">>, <<"A", "B", "1", "2">>, <<"x", "y", "9", "z">>, <<"z", "z", "9">>, <<>>}

\* well-formed markers: both bracket forms, 0..MaxWs blanks at each of the four
\* whitespace positions, any surrounding text
SpacedTexts ==
    {Parts(pre, o, Bang, Blanks(a), Bridge, Blanks(b), Colon, Blanks(c), k, Blanks(d),
           Dashes, cl, suf) :
       pre \in PlainPrefixes \cup {MarkerPrefix}, o \in {Lt, LtEntity},
       cl \in {Gt, GtEntity}, a \in 0..MaxWs, b \in 0..MaxWs, c \in 0..MaxWs,
       d \in 0..MaxWs, k \in SampleKeys, suf \in Suffixes \ {<<>>}}

\* well-formed markers with other whitespace than blanks
OtherSpaceTexts ==
    {Parts(<<>>, o, Bang, w, Bridge, w, Colon, w, k, w, Dashes, cl, <<>>) :
       o \in {Lt, LtEntity}, cl \in {Gt, GtEntity},
       w \in {<<"\t">>, <<"\r", "\n">>}, k \in SampleKeys}

\* markers whose literal tokens are written in upper or mixed case
CaseTexts ==
    {Parts(<<>>, o, Bang, Blanks(1), word, <<>>, Colon, Blanks(1), k, Blanks(1),
           Dashes, cl, <<>>) :
       o \in {Lt, LtEntity, <<"&", "L", "T", ";">>, <<"&", "L", "t", ";">>},
       word \in {Bridge, <<"B", "R", "I", "D", "G", "E">>, <<"B", "r", "i", "d", "g", "e">>},
       cl \in {Gt, GtEntity, <<"&", "G", "T", ";">>}, k \in SampleKeys}

\* texts with no well-formed marker: one part of a good marker spoilt at a time
MalformedTexts ==
    LET Good(o, bang, word, colon, k, dashes, cl) ==
            Parts(<<"s", "e", "e", " ">>, o, bang, Blanks(1), word, <<>>, colon, Blanks(1), k,
                  Blanks(1), dashes, cl, <<>>)
    IN  {Good(Lt, Bang, Bridge, Colon, k, Dashes, Gt) : k \in {<<>>, <<"a", "_", "b">>, <<"a", "b", " ", "1", "2">>, <<"-">>}}
        \cup {Good(Lt, Bang, Bridge, Colon, <<"A", "b", "1", "2">>, d, Gt) : d \in {<<>>, <<"-">>}}
        \cup {Good(Lt, b, Bridge, Colon, <<"A", "b", "1", "2">>, Dashes, Gt) : b \in {<<>>, <<"!", "-">>}}
        \cup {Good(Lt, Bang, w, Colon, <<"A", "b", "1", "2">>, Dashes, Gt) : w \in {<<>>, <<"b", "r", "i", "d", "g">>}}
        \cup {Good(Lt, Bang, Bridge, <<>>, <<"A", "b", "1", "2">>, Dashes, Gt)}
        \cup {Good(o, Bang, Bridge, Colon, <<"A", "b", "1", "2">>, Dashes, Gt) : o \in {<<>>, <<"&", "l", "t">>}}
        \cup {Good(Lt, Bang, Bridge, Colon, <<"A", "b", "1", "2">>, Dashes, cl) : cl \in {<<>>, <<"&", "g", "t">>}}
        \cup {Parts(pre, <<>>, <<>>, <<>>, <<>>, <<>>, <<>>, <<>>, <<>>, <<>>, <<>>, <<>>, <<>>) :
                pre \in PlainPrefixes}

Texts == SpacedTexts \cup OtherSpaceTexts \cup CaseTexts \cup MalformedTexts

\* the marker a collaborator echoes for a generated key: <!-- bridge: K -->
EchoTexts(key) ==
    {Parts(pre, Lt, Bang, Blanks(1), Bridge, <<>>, Colon, Blanks(1), key, Blanks(1),
           Dashes, Gt, suf) : pre \in PlainPrefixes, suf \in Suffixes}

(***************************************************************************)
(* Codec commands and the paste that feeds them.                           *)
(***************************************************************************)
\* the indices rng.gen_range(0..chars.len()) is sampled at: every RngStep-th
Draws == {i \in 1..Len(chars) : (i - 1) % RngStep = 0}

\* (0..4).map(|_| chars[rng.gen_range(0..chars.len())]).collect()
generate_bridge_key ==
    {<<chars[a], chars[b], chars[c], chars[d]>> : a \in Draws, b \in Draws,
                                                   c \in Draws, d \in Draws}

CodecInit ==
    /\ pasted \in {NothingPasted} \cup Texts
    /\ found = None
    /\ valid = None
    /\ generated = None

GenerateBridgeKey ==
    /\ pasted = NothingPasted
    /\ generated = None
    /\ \E key \in generate_bridge_key : generated' = Some(key)
    /\ UNCHANGED <<pasted, found, valid>>
    /\ UNCHANGED dbvars

\* the collaborator's reply is pasted: it echoes the marker of the generated key
PasteReply ==
    /\ pasted = NothingPasted
    /\ generated # None
    /\ pasted' \in EchoTexts(generated[1])
    /\ found' = None
    /\ valid' = None
    /\ UNCHANGED generated
    /\ UNCHANGED dbvars

\* Each command is called once on a pasted text (a second call returns the same),
\* validate_bridge_key with a key of the caller's or with the generated key.
ValidateBridgeKey ==
    /\ valid = None
    /\ \E expected_key \in ExpectedKeys \cup {generated[i] : i \in DOMAIN generated} :
           valid' = Some([expected_key |-> expected_key,
                          result |-> validate_bridge_key(input_text, expected_key)])
    /\ UNCHANGED <<pasted, found, generated>>
    /\ UNCHANGED dbvars

ExtractBridgeKey ==
    /\ found = None
    /\ found' = Some(extract_bridge_key(input_text))
    /\ UNCHANGED <<pasted, valid, generated>>
    /\ UNCHANGED dbvars

(***************************************************************************)
(* Specifications.                                                         *)
(***************************************************************************)
CodecIdle ==
    /\ pasted = NothingPasted
    /\ found = None
    /\ valid = None
    /\ generated = None

Init == DbInit /\ CodecIdle

(***************************************************************************)
(* The arguments a caller passes: every id some row carries or refers to,  *)
(* and one id that matches no row (all such ids behave alike).             *)
(***************************************************************************)
StreamArgs == {NoSuchId} \cup StreamIds \cup {e.stream_id : e \in entries}
                         \cup {p.stream_id : p \in pending_blocks}
EntryArgs == {NoSuchId} \cup EntryIds \cup {v.entry_id : v \in entry_versions}
BlockArgs == {NoSuchId} \cup {p.id : p \in pending_blocks}
\* the version numbers an entry has, and the next one, which it has not
NumberArgs(entry_id) ==
    1..(Max({0} \cup {v.version_number : v \in VersionsOf(entry_id)}) + 1)

\* The versioning engine with the commands its claims name.
VersionNext ==
    \/ \E s \in StreamArgs, r \in Roles, c \in Contents : create_entry(s, r, c)
    \/ \E e \in EntryArgs, c \in Contents : update_entry_content(e, c)
    \/ \E e \in EntryArgs, b \in BOOLEAN : toggle_entry_staging(e, b)
    \/ \E e \in EntryArgs : delete_entry(e)
    \/ \E e \in EntryArgs, m \in Messages : commit_entry_version(e, m)
    \/ \E e \in EntryArgs : \E n \in NumberArgs(e) : revert_to_version(e, n)

\* The staging set.
StagingNext ==
    \/ create_stream
    \/ \E s \in StreamArgs : delete_stream(s)
    \/ \E s \in StreamArgs, r \in Roles, c \in Contents : create_entry(s, r, c)
    \/ \E e \in EntryArgs, b \in BOOLEAN : toggle_entry_staging(e, b)
    \/ \E e \in EntryArgs : delete_entry(e)
    \/ \E s \in StreamArgs : get_staged_entries(s)
    \/ \E s \in StreamArgs : clear_all_staging(s)

\* The pending-block ledger.
LedgerNext ==
    \/ Tick
    \/ create_stream
    \/ \E s \in StreamArgs : delete_stream(s)
    \/ \E s \in StreamArgs, k \in BridgeKeys, l \in StagedIdLists, d \in Directives :
          create_pending_block(s, k, l, d)
    \/ \E s \in StreamArgs : get_pending_block(s)
    \/ \E p \in BlockArgs : delete_pending_block(p)

\* The pending-block ledger beside the commands that change the staging set.
SnapshotNext ==
    \/ \E s \in StreamArgs, r \in Roles, c \in Contents : create_entry(s, r, c)
    \/ \E e \in EntryArgs, b \in BOOLEAN : toggle_entry_staging(e, b)
    \/ \E e \in EntryArgs : delete_entry(e)
    \/ \E s \in StreamArgs : clear_all_staging(s)
    \/ \E s \in StreamArgs, k \in BridgeKeys, l \in StagedIdLists, d \in Directives :
          create_pending_block(s, k, l, d)
    \/ \E s \in StreamArgs : get_pending_block(s)

\* The version history as its readers see it, with the clock running.
HistoryNext ==
    \/ Tick
    \/ \E e \in EntryArgs, c \in Contents : update_entry_content(e, c)
    \/ \E e \in EntryArgs : delete_entry(e)
    \/ \E e \in EntryArgs, m \in Messages : commit_entry_version(e, m)
    \/ \E e \in EntryArgs : get_entry_versions(e)
    \/ \E e \in EntryArgs : get_latest_version(e)

\* Every command that writes to an entry, a version or a pending block.
FrameNext ==
    \/ \E e \in EntryArgs, c \in Contents : update_entry_content(e, c)
    \/ \E e \in EntryArgs, b \in BOOLEAN : toggle_entry_staging(e, b)
    \/ \E e \in EntryArgs : delete_entry(e)
    \/ \E s \in StreamArgs : clear_all_staging(s)
    \/ \E e \in EntryArgs, m \in Messages : commit_entry_version(e, m)
    \/ \E e \in EntryArgs : \E n \in NumberArgs(e) : revert_to_version(e, n)
    \/ \E s \in StreamArgs, d \in Directives : create_pending_block(s, "ab12", <<>>, d)
    \/ \E p \in BlockArgs : delete_pending_block(p)

(***************************************************************************)
(* An export and its reply, in the order the front end issues the commands *)
(* (control flow of the specification; the front end is not in src-tauri): *)
(* stage entries, generate a key, create the pending block with the staged *)
(* ids, paste the reply, look the block up, validate the reply against its *)
(* key, commit the target entry, delete the block.                         *)
(***************************************************************************)
NothingExported == \A i \in Ids : given[i] = None
NothingCommitted == \A i \in Ids : commits[i] = 0
StagedIds(stream_id) ==
    [i \in 1..Len(StagedEntries(stream_id)) |-> StagedEntries(stream_id)[i].id]

StageEntries ==
    /\ generated = None
    /\ \E e \in EntryIds : toggle_entry_staging(e, TRUE)

RequestExport ==
    /\ generated # None
    /\ NothingExported
    /\ \E s \in StreamIds, d \in Directives :
          create_pending_block(s, generated[1], StagedIds(s), d)

ReceiveReply ==
    /\ pending_blocks # {}
    /\ PasteReply

LookUpBlock ==
    /\ pasted # NothingPasted
    /\ \E s \in StreamIds : get_pending_block(s)

ValidateReply ==
    /\ ret.op = "get_pending_block"
    /\ ret.val # None
    /\ ValidateBridgeKey
    /\ valid'[1].expected_key = ret.val[1].bridge_key

AcceptReply ==
    /\ valid # None
    /\ valid[1].result
    /\ NothingCommitted
    /\ \E e \in EntryIds, m \in Messages : commit_entry_version(e, m)

DiscardBlock ==
    /\ ~NothingCommitted
    /\ \E p \in pending_blocks : delete_pending_block(p.id)

BridgeNext ==
    \/ StageEntries
    \/ GenerateBridgeKey
    \/ RequestExport
    \/ ReceiveReply
    \/ LookUpBlock
    \/ ValidateReply
    \/ AcceptReply
    \/ DiscardBlock

\* Concurrent commits, every statement carried out.
MutexNext ==
    \/ \E t \in Callers, e \in EntryArgs, m \in Messages : Invoke(t, e, m)
    \/ \E t \in Callers : Lock(t)
    \/ \E t \in Callers : Select(t)
    \/ \E t \in Callers : Insert(t, TRUE)
    \/ \E t \in Callers : Update(t, TRUE)
    \/ \E e \in EntryArgs, c \in Contents : Serialized(update_entry_content(e, c))
    \/ \E e \in EntryArgs : Serialized(delete_entry(e))

\* Commits whose statements SQLite may fail to carry out.
FailureNext ==
    \/ \E t \in Callers, e \in EntryArgs, m \in Messages : Invoke(t, e, m)
    \/ \E t \in Callers : Lock(t)
    \/ \E t \in Callers : Select(t)
    \/ \E t \in Callers, executed \in BOOLEAN : Insert(t, executed)
    \/ \E t \in Callers, executed \in BOOLEAN : Update(t, executed)
    \/ \E e \in EntryArgs, c \in Contents : Serialized(update_entry_content(e, c))
    \/ \E e \in EntryArgs : \E n \in NumberArgs(e) : Serialized(revert_to_version(e, n))

\* Commands of every subsystem around a commit whose thread may panic.
PoisonNext ==
    \/ \E e \in EntryIds, m \in Messages : Invoke("t1", e, m)
    \/ Lock("t1")
    \/ LockFails("t1")
    \/ Select("t1")
    \/ Insert("t1", TRUE)
    \/ Update("t1", TRUE)
    \/ Panic("t1")
    \/ \E e \in EntryIds, c \in Contents :
          Locked("update_entry_content", <<e, c>>, update_entry_content(e, c))
    \/ \E e \in EntryIds, b \in BOOLEAN :
          Locked("toggle_entry_staging", <<e, b>>, toggle_entry_staging(e, b))
    \/ \E e \in EntryIds : Locked("get_latest_version", <<e>>, get_latest_version(e))
    \/ \E s \in StreamIds, d \in Directives :
          Locked("create_pending_block", <<s, "ab12", <<>>, d>>,
                 create_pending_block(s, "ab12", <<>>, d))
    \/ \E p \in BlockArgs : Locked("delete_pending_block", <<p>>, delete_pending_block(p))

\* The readers of the JSON columns over rows that other writers may have spoilt.
StoredNext ==
    \/ \E e \in EntryIds : CorruptContent(e)
    \/ \E v \in entry_versions : CorruptSnapshot(v.id)
    \/ \E p \in pending_blocks : CorruptStagedIds(p.id)
    \/ \E e \in EntryIds : toggle_entry_staging(e, TRUE)
    \/ \E e \in EntryIds, m \in Messages : commit_entry_version(e, m)
    \/ \E s \in StreamIds, l \in StagedIdLists, d \in Directives :
          create_pending_block(s, "ab12", l, d)
    \/ \E s \in StreamIds : get_staged_entries(s)
    \/ \E e \in EntryIds : get_entry_versions(e)
    \/ \E e \in EntryIds : get_latest_version(e)
    \/ \E s \in StreamIds : get_pending_block(s)

\* A version looked up or reverted to by its number.
LookupNext ==
    \/ \E e \in EntryArgs, c \in Contents : update_entry_content(e, c)
    \/ \E e \in EntryArgs : delete_entry(e)
    \/ \E e \in EntryArgs, m \in Messages : commit_entry_version(e, m)
    \/ \E e \in EntryArgs : \E n \in NumberArgs(e) : get_version_by_number(e, n)
    \/ \E e \in EntryArgs : \E n \in NumberArgs(e) : revert_to_version(e, n)

\* The staging commands beside entries of several streams and committed entries.
FlagsNext ==
    \/ \E s \in StreamArgs, r \in Roles, c \in Contents : create_entry(s, r, c)
    \/ \E e \in EntryArgs, b \in BOOLEAN : toggle_entry_staging(e, b)
    \/ \E s \in StreamArgs : clear_all_staging(s)
    \/ \E e \in EntryArgs, m \in Messages : commit_entry_version(e, m)

\* The writing commands that name a row by its id, called with ids of rows
\* there are and of rows there are not.
NoopNext ==
    \/ \E s \in StreamArgs : delete_stream(s)
    \/ \E s \in StreamArgs, r \in Roles, c \in Contents : create_entry(s, r, c)
    \/ \E e \in EntryArgs, c \in Contents : update_entry_content(e, c)
    \/ \E e \in EntryArgs, b \in BOOLEAN : toggle_entry_staging(e, b)
    \/ \E e \in EntryArgs : delete_entry(e)
    \/ \E s \in StreamArgs : clear_all_staging(s)
    \/ \E s \in StreamArgs, d \in Directives : create_pending_block(s, "ab12", <<>>, d)
    \/ \E p \in BlockArgs : delete_pending_block(p)

\* The creating commands beside the reads that return what they created.
CreateNext ==
    \/ Tick
    \/ create_stream
    \/ \E s \in StreamArgs, r \in Roles, c \in Contents : create_entry(s, r, c)
    \/ \E s \in StreamArgs, d \in Directives : create_pending_block(s, "ab12", <<>>, d)
    \/ \E s \in StreamArgs : get_stream_details(s)
    \/ \E s \in StreamArgs : get_pending_block(s)

SpecVersion == Init /\ [][VersionNext]_vars
SpecMutex == Init /\ [][MutexNext]_vars
SpecFailure == Init /\ [][FailureNext]_vars
SpecBridge == Init /\ [][BridgeNext]_vars
SpecHistory == Init /\ [][HistoryNext]_vars
SpecSnapshot == Init /\ [][SnapshotNext]_vars
SpecStaging == Init /\ [][StagingNext]_vars
SpecLedger == Init /\ [][LedgerNext]_vars
SpecFrame == Init /\ [][FrameNext]_vars
SpecPoison == Init /\ [][PoisonNext]_vars
SpecStored == Init /\ [][StoredNext]_vars
SpecLookup == Init /\ [][LookupNext]_vars
SpecFlags == Init /\ [][FlagsNext]_vars
SpecNoop == Init /\ [][NoopNext]_vars
SpecCreate == Init /\ [][CreateNext]_vars

\* The bridge-key codec: pure functions of the pasted text; the store is idle.
DbIdle ==
    /\ schema = "migrated"
    /\ foreign_keys = TRUE
    /\ streams = {TutorialStream}
    /\ entries = TutorialEntries
    /\ entry_versions = {}
    /\ pending_blocks = {}
    /\ now = 0
    /\ uuid = TutorialIds
    /\ ret = Uncalled
    /\ commits = [i \in Ids |-> 0]
    /\ committed = {}
    /\ given = [i \in Ids |-> None]
    /\ issued = {<<e.stream_id, e.sequence_id>> : e \in TutorialEntries}
    /\ mutex = Unlocked
    /\ calls = [t \in Callers |-> Idle]

CodecNext ==
    \/ GenerateBridgeKey
    \/ PasteReply
    \/ ValidateBridgeKey
    \/ ExtractBridgeKey

CodecStart == DbIdle /\ CodecInit

SpecCodec == CodecStart /\ [][CodecNext]_vars

(***************************************************************************)
(* Claims about the versioning engine, checked under SpecVersion.          *)
(***************************************************************************)
VersionNumbers(entry_id) == {v.version_number : v \in VersionsOf(entry_id)}

\* C1: after N successful commits on an entry, however interleaved with
\* set_content, revert and staging calls, its versions are numbered exactly
\* 1..N, one version per number, and its version_head is N; the Nth commit
\* returns version N.
C1_CommitsNumberVersions ==
    /\ \A e \in entries :
          /\ VersionNumbers(e.id) = 1..commits[e.id]
          /\ Cardinality(VersionsOf(e.id)) = commits[e.id]
          /\ e.version_head = commits[e.id]
    /\ (ret.op = "commit_entry_version" /\ ret.ok) =>
          ret.val.version_number = commits[ret.args[1]]

\* an entry committed twice, staged and edited in between
C1_Witness ==
    \E e \in entries :
        /\ commits[e.id] = 2
        /\ e.version_head = 2
        /\ e.is_staged = 1
        /\ \E v, w \in VersionsOf(e.id) :
              /\ v.version_number = 1
              /\ w.version_number = 2
              /\ v.content_snapshot # w.content_snapshot

\* C2: a successful revert(entry, v) leaves the entry's content equal to the
\* snapshot of its version v, adds or removes no version, and leaves the
\* entry's version_head as it was.
C2_RevertRestoresSnapshot ==
    [][(ret'.op = "revert_to_version" /\ ret'.ok) =>
         /\ entry_versions' = entry_versions
         /\ \A e \in entries : \E f \in entries' :
               /\ f.id = e.id
               /\ f.version_head = e.version_head
               /\ e.id = ret'.args[1] =>
                     \A v \in entry_versions :
                        (v.entry_id = e.id /\ v.version_number = ret'.args[2]) =>
                            f.content = v.content_snapshot]_vars

\* commit, edit, commit, revert to version 1: the head is still 2, the ledger
\* still holds versions 1 and 2, and the content is version 1's snapshot
C2_Witness ==
    /\ ret.op = "revert_to_version"
    /\ ret.ok
    /\ ret.args[2] = 1
    /\ \E e \in entries :
          /\ e.id = ret.args[1]
          /\ e.version_head = 2
          /\ VersionNumbers(e.id) = {1, 2}
          /\ \E v, w \in VersionsOf(e.id) :
                /\ v.version_number = 1
                /\ w.version_number = 2
                /\ v.content_snapshot # w.content_snapshot
                /\ e.content = v.content_snapshot

(***************************************************************************)
(* Claims about the pending-block ledger, checked under SpecLedger.        *)
(***************************************************************************)
\* the block of a stream created last: ids are handed out in creation order
MostRecentlyCreated(stream_id) ==
    CHOOSE p \in BlocksOf(stream_id) : \A q \in BlocksOf(stream_id) : q.id <= p.id

\* C3: get_pending_block returns the most recently created block of the
\* stream that still exists, or absent when the stream has none, also when
\* two blocks were created within the same clock millisecond.
C3_LatestIsMostRecentlyCreated ==
    (ret.op = "get_pending_block" /\ ret.ok) =>
        IF BlocksOf(ret.args[1]) = {}
        THEN ret.val = None
        ELSE ret.val = Some(PendingBlock(MostRecentlyCreated(ret.args[1])))

(***************************************************************************)
(* Claims about the bridge-key codec, checked under SpecCodec.             *)
(***************************************************************************)
AllSpace(str) == \A i \in 1..Len(str) : IsSpace(str[i])
AllKeyChars(str) == \A i \in 1..Len(str) : IsKeyChar(str[i])

\* the middle of the pasted text is a marker of the grammar, its literal
\* tokens compared after lower-casing
MarkerAnyCase ==
    /\ to_lowercase(pasted.open) \in {Lt, LtEntity}
    /\ pasted.bang = Bang
    /\ AllSpace(pasted.w1)
    /\ to_lowercase(pasted.word) = Bridge
    /\ AllSpace(pasted.w2)
    /\ pasted.colon = Colon
    /\ AllSpace(pasted.w3)
    /\ pasted.key # <<>>
    /\ AllKeyChars(pasted.key)
    /\ AllSpace(pasted.w4)
    /\ pasted.dashes = Dashes
    /\ to_lowercase(pasted.close) \in {Gt, GtEntity}

\* the same with the literal tokens in lower case
MarkerLowerCase ==
    /\ MarkerAnyCase
    /\ pasted.open \in {Lt, LtEntity}
    /\ pasted.word = Bridge
    /\ pasted.close \in {Gt, GtEntity}

\* the text before the middle holds a marker of its own
MarkerBefore == pasted.prefix = MarkerPrefix

\* C4: validate(text, expected_key) is true exactly when extract(text) yields
\* a key equal to expected_key after both are lower-cased.
C4_ValidateIffExtract ==
    (found # None /\ valid # None) =>
        valid[1].result =
            (/\ found[1] # None
             /\ to_lowercase(found[1][1]) = to_lowercase(valid[1].expected_key))

\* validate accepted an expected key written in another case than the extracted one
C4_Witness ==
    /\ found # None
    /\ valid # None
    /\ valid[1].result
    /\ found[1] # None
    /\ found[1][1] # valid[1].expected_key

\* C5: a marker whose literal tokens (bridge, &lt;, &gt;) are written in upper
\* or mixed case is matched like the lower-case form, and its key is
\* returned lower-cased.
C5_TokensMatchInAnyCase ==
    (found # None /\ MarkerAnyCase /\ ~MarkerBefore) =>
        found[1] = Some(to_lowercase(pasted.key))

\* C6 as claimed: extract returns lower-case(K) for a lower-case marker with
\* key K, whatever text surrounds it.
C6_AnySurroundingText ==
    (found # None /\ MarkerLowerCase) =>
        found[1] = Some(to_lowercase(pasted.key))

\* C6 as amended: extract returns lower-case(K) for a lower-case marker with
\* key K, literal or entity brackets, any whitespace at the four positions,
\* provided no other marker stands before it in the text.
C6_ExtractsLowerCasedKey ==
    (found # None /\ MarkerLowerCase /\ ~MarkerBefore) =>
        found[1] = Some(to_lowercase(pasted.key))

\* an upper-case key extracted in lower case from an entity-bracketed marker
\* with whitespace at every position, inside other text
C6_Witness ==
    /\ found # None
    /\ MarkerLowerCase
    /\ ~MarkerBefore
    /\ pasted.open = LtEntity
    /\ pasted.close = GtEntity
    /\ pasted.prefix # <<>>
    /\ pasted.suffix # <<>>
    /\ \A w \in {pasted.w1, pasted.w2, pasted.w3, pasted.w4} : w # <<>>
    /\ to_lowercase(pasted.key) # pasted.key
    /\ found[1] = Some(to_lowercase(pasted.key))

\* C7: for a text with no well-formed marker, extract returns absent and
\* validate returns false for every expected key.
C7_NoMarkerNoKey ==
    (~MarkerAnyCase /\ ~MarkerBefore) =>
        /\ found # None => found[1] = None
        /\ valid # None => ~valid[1].result

\* a marker with an empty key: extract found nothing and validate refused
C7_Witness ==
    /\ pasted.key = <<>>
    /\ pasted.word = Bridge
    /\ pasted.dashes = Dashes
    /\ found = Some(None)
    /\ valid # None
    /\ ~valid[1].result

\* C8: a generated key has exactly 4 characters, each of a-z0-9, and when it
\* is echoed back as <!-- bridge: K --> extract returns it verbatim and
\* validate against it is true.
C8_GeneratedKeyRoundTrips ==
    generated # None =>
        /\ Len(generated[1]) = 4
        /\ \A i \in 1..Len(generated[1]) :
              generated[1][i] \in Range(LowerCase) \cup Range(Digits)
        /\ pasted \in EchoTexts(generated[1]) =>
              /\ found # None => found[1] = generated
              /\ (valid # None /\ valid[1].expected_key = generated[1]) =>
                    valid[1].result

\* a generated key holding a letter and a digit went through the marker
C8_Witness ==
    /\ generated # None
    /\ pasted \in EchoTexts(generated[1])
    /\ \E i, j \in 1..4 : /\ generated[1][i] \in Range(LowerCase)
                          /\ generated[1][j] \in Range(Digits)
    /\ found = Some(generated)
    /\ valid = Some([expected_key |-> generated[1], result |-> TRUE])

(***************************************************************************)
(* Claims about the staging set, checked under SpecStaging.                *)
(***************************************************************************)
\* is_staged: row.get::<_, i32>(6)? != 0
IsStaged(e) == e.is_staged # 0

\* C9: set_staged is idempotent: in the state a set_staged(entry, b) call
\* leaves, the same call changes nothing (so list_staged is unchanged),
\* and the call reports no error.
C9_SetStagedIdempotent ==
    ret.op = "toggle_entry_staging" =>
        /\ ret.ok
        /\ SetStaged(ret.args[1], staged_param(ret.args[2])) = entries
        /\ \A e \in entries : e.id = ret.args[1] => IsStaged(e) = ret.args[2]

\* an entry was staged while another one of its stream already was
C9_Witness ==
    /\ ret.op = "toggle_entry_staging"
    /\ ret.args[2]
    /\ \E e \in entries :
          /\ e.id = ret.args[1]
          /\ Len(StagedEntries(e.stream_id)) = 2

\* C10: after clear_all(stream), list_staged(stream) is empty and every
\* entry of the stream reads is_staged = false.
C10_ClearAllUnstagesStream ==
    ret.op = "clear_all_staging" =>
        /\ ret.ok
        /\ StagedEntries(ret.args[1]) = <<>>
        /\ \A e \in EntriesOf(ret.args[1]) : ~IsStaged(e)

\* a stream of several entries was cleared while an entry of another stream
\* stays staged
C10_Witness ==
    /\ ret.op = "clear_all_staging"
    /\ Cardinality(EntriesOf(ret.args[1])) >= 2
    /\ \E e \in entries : e.stream_id # ret.args[1] /\ IsStaged(e)

\* C11: get_staged_entries returns exactly the entries of the stream whose
\* is_staged flag is true, each once, none of another stream and none
\* unstaged, in ascending order of sequence_id.
C11_ListStagedIsExact ==
    ret.op = "get_staged_entries" =>
        /\ ret.ok
        /\ {ret.val[i].id : i \in 1..Len(ret.val)} =
              {e.id : e \in {f \in entries : f.stream_id = ret.args[1] /\ IsStaged(f)}}
        /\ \A i, j \in 1..Len(ret.val) :
              i < j => ret.val[i].sequence_id < ret.val[j].sequence_id
        /\ \A i \in 1..Len(ret.val) :
              ret.val[i].stream_id = ret.args[1] /\ ret.val[i].is_staged = TRUE

\* two staged entries were listed while a third entry of the stream is
\* unstaged and an entry of another stream is staged
C11_Witness ==
    /\ ret.op = "get_staged_entries"
    /\ Len(ret.val) = 2
    /\ \E e \in EntriesOf(ret.args[1]) : ~IsStaged(e)
    /\ \E e \in entries : e.stream_id # ret.args[1] /\ IsStaged(e)

(***************************************************************************)
(* Claims about the pending-block snapshot, checked under SpecSnapshot.    *)
(***************************************************************************)
\* C12: the staged_context_ids get_pending_block returns for a block equal,
\* element for element and in order, the list create_pending_block was given
\* for it, whatever set_staged, clear_all, create_entry and delete_entry
\* calls came in between.
C12_StagedIdsStayFrozen ==
    (ret.op = "get_pending_block" /\ ret.ok /\ ret.val # None) =>
        Some(ret.val[1].staged_context_ids) = given[ret.val[1].id]

\* a block frozen with the ids 3, 2 is returned after entry 3 was deleted and
\* while a newer entry is the only staged one
C12_Witness ==
    /\ ret.op = "get_pending_block"
    /\ ret.val # None
    /\ ret.val[1].staged_context_ids = <<3, 2>>
    /\ 3 \notin EntryIds
    /\ \E e \in entries : e.id = 2 /\ ~IsStaged(e)
    /\ \E e \in entries : e.id > TutorialIds /\ IsStaged(e)

(***************************************************************************)
(* Further claims about the versioning engine, checked under SpecVersion.  *)
(***************************************************************************)
\* C13: commit on an entry id that does not exist returns an error, adds no
\* version and changes no entry; revert to a number the entry has no version
\* of returns an error and changes no entry's content.
C13_MissingRowsFail ==
    [][/\ (ret'.op = "commit_entry_version" /\ ret'.args[1] \notin EntryIds) =>
             /\ ~ret'.ok
             /\ entry_versions' = entry_versions
             /\ entries' = entries
       /\ (/\ ret'.op = "revert_to_version"
           /\ \A v \in entry_versions :
                 ~(v.entry_id = ret'.args[1] /\ v.version_number = ret'.args[2])) =>
             /\ ~ret'.ok
             /\ entries' = entries]_vars

\* a revert to version 2 of an entry that has version 1 only was refused
C13_Witness ==
    /\ ret.op = "revert_to_version"
    /\ ~ret.ok
    /\ ret.args[1] \in EntryIds
    /\ ret.args[2] = 2
    /\ VersionNumbers(ret.args[1]) = {1}
    /\ EntryRow(ret.args[1]).content # "docA"

(***************************************************************************)
(* Claims about the version history, checked under SpecHistory.            *)
(***************************************************************************)
\* C14: a successful commit on an entry sets the updated_at of the stream
\* that owns the entry to the time of the commit.
C14_CommitTouchesStream ==
    [][(ret'.op = "commit_entry_version" /\ ret'.ok) =>
         \A e \in entries' : \A s \in streams' :
            (e.id = ret'.args[1] /\ s.id = e.stream_id) => s.updated_at = now']_vars

C16_BridgeScenario ==
    [][/\ (/\ valid' # None
           /\ generated' # None
           /\ pasted' \in EchoTexts(generated'[1])
           /\ \E p \in pending_blocks' :
                 p.bridge_key = generated'[1] /\ valid'[1].expected_key = p.bridge_key) =>
             valid'[1].result
       /\ (ret'.op = "commit_entry_version" /\ ret'.ok) =>
             \A e \in entries : \E f \in entries' :
                /\ f.id = e.id
                /\ f.version_head =
                     IF e.id = ret'.args[1] THEN e.version_head + 1 ELSE e.version_head
       /\ ret'.op = "delete_pending_block" =>
             /\ ret'.ok
             /\ \A p \in pending_blocks' : p.id # ret'.args[1]
       /\ (/\ ret'.op = "get_pending_block"
           /\ \A p \in pending_blocks' : p.stream_id # ret'.args[1]) =>
             ret'.val = None]_vars

\* the scenario ran to its end: entries 2 and 3 were staged and frozen into
\* the block, the reply validated against the generated key, an entry was
\* committed to version 1, the block was deleted and the look-up is absent
C16_Witness ==
    /\ ret.op = "get_pending_block"
    /\ ret.val = None
    /\ pending_blocks = {}
    /\ \E i \in Ids : given[i] = Some(<<2, 3>>)
    /\ valid # None
    /\ valid[1].result
    /\ valid[1].expected_key = generated[1]
    /\ \E e \in entries : e.version_head = 1 /\ commits[e.id] = 1 /\ IsStaged(e)

(***************************************************************************)
(* Claims about entries and ownership, checked under SpecStaging.          *)
(***************************************************************************)
\* C17: a newly created entry receives a sequence_id greater than that of
\* every entry ever created before it in its stream, deleted ones included.
C17_SequenceIdsNeverReused ==
    [][(ret'.op = "create_entry" /\ ret'.ok) =>
         \A q \in issued : q[1] = ret'.args[1] => q[2] < ret'.val.sequence_id]_vars

\* C18: no entry or pending block refers to a stream that does not exist and
\* no entry version to an entry that does not exist, so that nothing owned
\* by a deleted stream or entry remains.
C18_OwnershipCascades ==
    /\ \A e \in entries : e.stream_id \in StreamIds
    /\ \A p \in pending_blocks : p.stream_id \in StreamIds
    /\ \A v \in entry_versions : v.entry_id \in EntryIds

(***************************************************************************)
(* Claims about the connection mutex, checked under SpecMutex, and about   *)
(* failing statements, checked under SpecFailure.                          *)
(***************************************************************************)
\* C19: at most one caller is inside its critical section at any time, and
\* it is the holder of the mutex; concurrent commits on an entry produce
\* distinct consecutive version numbers: each successful commit returns the
\* number of commits so far, and between calls the versions of an entry are
\* 1..N with version_head N.
C19_CommitsAreSerialized ==
    /\ Cardinality({t \in Callers : Inside(t)}) <= 1
    /\ \A t \in Callers : Inside(t) => mutex = t
    /\ \A e \in entries :
          /\ Cardinality(VersionsOf(e.id)) = Cardinality(VersionNumbers(e.id))
          /\ mutex = Unlocked =>
                /\ VersionNumbers(e.id) = 1..commits[e.id]
                /\ e.version_head = commits[e.id]
    /\ (ret.op = "commit_entry_version" /\ ret.ok /\ ret.args[1] \in EntryIds) =>
          ret.val.version_number <= commits[ret.args[1]]

\* a caller has inserted version 2 of an entry and holds the lock while the
\* other caller waits to commit the same entry
C19_Witness ==
    \E t, u \in Callers :
        /\ calls[t].pc = "inserted"
        /\ calls[u].pc = "waiting"
        /\ calls[u].entry_id = calls[t].entry_id
        /\ VersionNumbers(calls[t].entry_id) = {1, 2}

\* C20: a commit that reports failure has added no EntryVersion and has left
\* version_head as it read it.
C20_FailedCommitAppliesNothing ==
    [][\A t \in Callers :
         (Inside(t) /\ calls'[t] = Idle /\ ~ret'.ok) =>
             /\ \A v \in entry_versions' : v.id # calls[t].version_id
             /\ \A e \in entries' :
                   (e.id = calls[t].entry_id /\ calls[t].pc # "locked") =>
                       e.version_head = calls[t].current_version]_vars


(***************************************************************************)
(* C21: whenever no commit is in progress, the versions of every existing  *)
(* entry carry exactly the numbers 1..version_head, each number once; this *)
(* is claimed for every reachable state, the ones after a commit that      *)
(* failed part-way included.                                               *)
(***************************************************************************)
C21_NumbersAreOneToHead ==
    mutex = Unlocked =>
        \A e \in entries :
            /\ VersionNumbers(e.id) = 1..e.version_head
            /\ \A v, w \in VersionsOf(e.id) :
                  v.version_number = w.version_number => v = w


(***************************************************************************)
(* C22: commit_entry_version is the only command that changes the          *)
(* version_head of an entry that exists before and after the step, and it  *)
(* changes only the head of the entry it was called on; update of content, *)
(* revert, staging, clear-all, pending-block commands and commands on      *)
(* other entries leave it as it was, and it never decreases.               *)
(***************************************************************************)
C22_OnlyCommitMovesHead ==
    [][\A e \in entries : \A f \in entries' :
         f.id = e.id =>
            /\ f.version_head >= e.version_head
            /\ f.version_head # e.version_head =>
                  /\ ret'.op = "commit_entry_version"
                  /\ ret'.args[1] = e.id]_vars

\* a committed entry was edited beside a pending block, and its head is still 1
C22_Witness ==
    /\ ret.op \in {"update_entry_content", "revert_to_version"}
    /\ ret.ok
    /\ \E e \in entries :
          e.id = ret.args[1] /\ e.version_head = 1 /\ e.content = "docA"
    /\ pending_blocks # {}


(***************************************************************************)
(* C23: update_entry_content changes nothing but the content and           *)
(* updated_at of the entry it names and the updated_at of that entry's     *)
(* stream: no version is created, the version_head and every other field   *)
(* of every entry stay, and so does every version with its snapshot.       *)
(***************************************************************************)
C23_SetContentWritesContentOnly ==
    [][ret'.op = "update_entry_content" =>
         /\ entry_versions' = entry_versions
         /\ pending_blocks' = pending_blocks
         /\ {f.id : f \in entries'} = EntryIds
         /\ \A e \in entries : \A f \in entries' :
               f.id = e.id =>
                  IF e.id = ret'.args[1]
                  THEN [f EXCEPT !.content = e.content, !.updated_at = e.updated_at] = e
                  ELSE f = e
         /\ {[r EXCEPT !.updated_at = 0] : r \in streams'} =
               {[r EXCEPT !.updated_at = 0] : r \in streams}]_vars

\* a staged entry with one committed version was given new content
C23_Witness ==
    /\ ret.op = "update_entry_content"
    /\ ret.ok
    /\ \E e \in entries :
          /\ e.id = ret.args[1]
          /\ e.content = ret.args[2]
          /\ e.version_head = 1
          /\ IsStaged(e)
          /\ \E v \in VersionsOf(e.id) : v.content_snapshot # e.content


(***************************************************************************)
(* C24: a version is immutable: as long as its entry exists after a step,  *)
(* the version is still there with the same version_number,                *)
(* content_snapshot and commit_message, whatever the step was (a later     *)
(* commit, an update of content, a revert, a staging command).             *)
(***************************************************************************)
C24_VersionsAreImmutable ==
    [][\A v \in entry_versions :
         (\E f \in entries' : f.id = v.entry_id) =>
            \E w \in entry_versions' :
               /\ w.id = v.id
               /\ w.entry_id = v.entry_id
               /\ w.version_number = v.version_number
               /\ w.content_snapshot = v.content_snapshot
               /\ w.commit_message = v.commit_message]_vars

\* the first version of an entry is still there after an edit and a second commit
C24_Witness ==
    /\ ret.op = "commit_entry_version"
    /\ ret.ok
    /\ ret.val.version_number = 2
    /\ \E v \in VersionsOf(ret.args[1]) :
          /\ v.version_number = 1
          /\ v.content_snapshot # ret.val.content_snapshot


(***************************************************************************)
(* C25: commit and revert round trip: when commit_entry_version on an      *)
(* entry whose content was c has returned the version numbered n, a later  *)
(* successful revert_to_version(entry, n) leaves the entry with content c, *)
(* whatever updates of content and commits came in between.                *)
(***************************************************************************)
C25_RevertRestoresCommitted ==
    (ret.op = "revert_to_version" /\ ret.ok) =>
        \A q \in committed :
            (q[1] = ret.args[1] /\ q[2] = ret.args[2]) =>
                \A e \in entries : e.id = q[1] => e.content = q[3]


(***************************************************************************)
(* C26: in a text with two well-formed markers that carry different keys,  *)
(* extract_bridge_key returns the key of the leftmost marker, and          *)
(* validate_bridge_key is true exactly for that key: for the key of the    *)
(* later marker it is false.                                               *)
(***************************************************************************)
C26_FirstMarkerWins ==
    (MarkerBefore /\ MarkerLowerCase) =>
        /\ found # None => found[1] = Some(<<"z", "z", "9">>)
        /\ valid # None =>
              valid[1].result = (to_lowercase(valid[1].expected_key) = <<"z", "z", "9">>)

\* both commands ran on a text with two markers; the later marker's key was refused
C26_Witness ==
    /\ MarkerBefore
    /\ MarkerLowerCase
    /\ found = Some(Some(<<"z", "z", "9">>))
    /\ valid # None
    /\ valid[1].expected_key = to_lowercase(pasted.key)
    /\ valid[1].expected_key # <<"z", "z", "9">>
    /\ valid[1].result = FALSE


(***************************************************************************)
(* C27: create_pending_block never replaces or removes an outstanding      *)
(* block, and outstanding blocks never make it fail: a call for a stream   *)
(* that already has blocks, or for an existing stream with a bridge_key    *)
(* some outstanding block of any stream carries, succeeds and adds one     *)
(* block beside all the blocks there were.  (A step that leaves the clock  *)
(* alone and ends with ret naming the command is a call of it.)            *)
(***************************************************************************)
C27_CreateKeepsOutstandingBlocks ==
    [][(ret'.op = "create_pending_block" /\ now' = now) =>
         /\ pending_blocks \subseteq pending_blocks'
         /\ (\E p \in pending_blocks :
                \/ p.stream_id = ret'.args[1]
                \/ p.bridge_key = ret'.args[2] /\ ret'.args[1] \in StreamIds) =>
               /\ ret'.ok
               /\ Cardinality(pending_blocks') = Cardinality(pending_blocks) + 1
               /\ \E p \in pending_blocks' \ pending_blocks :
                     /\ p.id = ret'.val.id
                     /\ p.stream_id = ret'.args[1]
                     /\ p.bridge_key = ret'.args[2]]_vars

\* a second block was created in the tutorial stream under the key of the first
C27_Witness ==
    /\ ret.op = "create_pending_block"
    /\ ret.ok
    /\ \E p, q \in pending_blocks :
          /\ p.id # q.id
          /\ q.id = ret.val.id
          /\ p.stream_id = q.stream_id
          /\ p.stream_id \in StreamIds
          /\ p.bridge_key = q.bridge_key


(***************************************************************************)
(* C28: delete_pending_block removes the block with the given id and       *)
(* nothing else: every other block stays as it is, and no entry (content,  *)
(* staged flag, version_head) and no version changes.                      *)
(***************************************************************************)
C28_DeleteRemovesOneBlock ==
    [][ret'.op = "delete_pending_block" =>
         /\ \A p \in pending_blocks : p.id # ret'.args[1] => p \in pending_blocks'
         /\ \A p \in pending_blocks' : p \in pending_blocks /\ p.id # ret'.args[1]
         /\ entries' = entries
         /\ entry_versions' = entry_versions]_vars

\* one of two blocks of the tutorial stream was deleted beside a staged entry
C28_Witness ==
    /\ ret.op = "delete_pending_block"
    /\ ret.args[1] = TutorialIds + 1
    /\ \E p \in pending_blocks : p.id = TutorialIds + 2 /\ p.stream_id \in StreamIds
    /\ \E e \in entries : IsStaged(e) /\ e.content = "docA"


(***************************************************************************)
(* C29: once the mutex of the connection is poisoned it stays poisoned,    *)
(* and every command called from then on returns the PoisonError to its    *)
(* caller at once (a caller waiting for the lock is idle again after its   *)
(* step) and leaves every table as it was.                                 *)
(***************************************************************************)
C29_PoisonedLockRefusesEveryCall ==
    [][mutex = Poisoned =>
         /\ mutex' = Poisoned
         /\ <<schema, foreign_keys, streams, entries, entry_versions, pending_blocks>>' =
               <<schema, foreign_keys, streams, entries, entry_versions, pending_blocks>>
         /\ ret' # ret => (~ret'.ok /\ ret'.val = PoisonError)
         /\ \A t \in Callers :
               (calls[t].pc = "waiting" /\ calls'[t] # calls[t]) =>
                   (calls'[t] = Idle /\ ~ret'.ok /\ ret'.val = PoisonError)]_vars

\* a commit panicked after its INSERT; a later update of content was refused
C29_Witness ==
    /\ mutex = Poisoned
    /\ ret = Err("update_entry_content", <<2, "docA">>, PoisonError)
    /\ \E v \in entry_versions : v.entry_id = 2
    /\ \A e \in entries : e.version_head = 0 /\ e.content # "docA"


(***************************************************************************)
(* C30: a read over rows whose JSON text does not parse succeeds: a staged *)
(* entry comes back with content null, a version with content_snapshot     *)
(* null, a pending block with an empty staged id list; every other field   *)
(* of the record is as stored, and the records whose text parses come back *)
(* as stored (a block with the list it was created with).                  *)
(***************************************************************************)
C30_UnparsableJsonReadsAsDefault ==
    [][(<<entries, entry_versions, pending_blocks>>' =
           <<entries, entry_versions, pending_blocks>>) =>
         /\ ret'.op = "get_staged_entries" =>
               /\ ret'.ok
               /\ Len(ret'.val) =
                     Cardinality({e \in EntriesOf(ret'.args[1]) : IsStaged(e)})
               /\ \A i \in 1..Len(ret'.val) : \E e \in entries :
                     /\ e.id = ret'.val[i].id
                     /\ ret'.val[i].content =
                           (IF e.content = Malformed THEN Null ELSE e.content)
                     /\ [ret'.val[i] EXCEPT !.content = e.content, !.is_staged = 1] = e
         /\ ret'.op = "get_entry_versions" =>
               /\ ret'.ok
               /\ Len(ret'.val) = Cardinality(VersionsOf(ret'.args[1]))
               /\ \A i \in 1..Len(ret'.val) : \E v \in VersionsOf(ret'.args[1]) :
                     /\ v.id = ret'.val[i].id
                     /\ ret'.val[i].content_snapshot =
                           (IF v.content_snapshot = Malformed THEN Null
                            ELSE v.content_snapshot)
                     /\ [ret'.val[i] EXCEPT !.content_snapshot = v.content_snapshot] = v
         /\ (ret'.op = "get_pending_block" /\ BlocksOf(ret'.args[1]) # {}) =>
               /\ ret'.ok
               /\ ret'.val # None
               /\ \E p \in BlocksOf(ret'.args[1]) :
                     /\ p.id = ret'.val[1].id
                     /\ ret'.val[1].staged_context_ids =
                           (IF p.staged_context_ids = MalformedIds THEN <<>>
                            ELSE given[p.id][1])
                     /\ [ret'.val[1] EXCEPT !.staged_context_ids = p.staged_context_ids] = p]_vars

\* two staged entries were listed, the first with spoilt content, the second intact
C30_Witness ==
    /\ ret.op = "get_staged_entries"
    /\ ret.ok
    /\ Len(ret.val) = 2
    /\ ret.val[1].content = Null
    /\ ret.val[2].content = "tutorial2"
    /\ \E e \in entries : e.id = ret.val[1].id /\ e.content = Malformed
    /\ \E p \in pending_blocks : p.staged_context_ids = MalformedIds


C32_StagingWritesFlagsOnly ==
    [][(ret'.op \in {"toggle_entry_staging", "clear_all_staging"}) =>
         /\ <<streams, entry_versions, pending_blocks>>' =
               <<streams, entry_versions, pending_blocks>>
         /\ {f.id : f \in entries'} = EntryIds
         /\ \A e \in entries : \A f \in entries' :
               f.id = e.id =>
                  /\ [f EXCEPT !.is_staged = e.is_staged] = e
                  /\ (ret'.op = "toggle_entry_staging" /\ e.id # ret'.args[1]) => f = e
                  /\ (ret'.op = "clear_all_staging" /\ e.stream_id # ret'.args[1]) =>
                        f = e]_vars

\* a stream with a committed entry was cleared while an entry of another
\* stream stays staged
C32_Witness ==
    /\ ret.op = "clear_all_staging"
    /\ \E e \in EntriesOf(ret.args[1]) : e.version_head = 1
    /\ \E e \in entries : e.stream_id # ret.args[1] /\ IsStaged(e)
    /\ entry_versions # {}


(***************************************************************************)
(* C33: a writing command called with an id no row has is a silent no-op:  *)
(* toggle_entry_staging, update_entry_content and delete_entry with an id  *)
(* of no entry, delete_pending_block with an id of no block, delete_stream *)
(* and clear_all_staging with an id of no stream return success and leave  *)
(* every table as it was.                                                  *)
(***************************************************************************)
C33_MissingIdWritesNothing ==
    [][(\/ /\ ret'.op \in {"toggle_entry_staging", "update_entry_content", "delete_entry"}
           /\ ret'.args[1] \notin EntryIds
        \/ /\ ret'.op = "delete_pending_block"
           /\ \A p \in pending_blocks : p.id # ret'.args[1]
        \/ /\ ret'.op \in {"delete_stream", "clear_all_staging"}
           /\ ret'.args[1] \notin StreamIds) =>
         /\ ret'.ok
         /\ <<streams, entries, entry_versions, pending_blocks>>' =
               <<streams, entries, entry_versions, pending_blocks>>]_vars

\* C34: whether user_id was declared by initialize_schema or added by a migration,
\* create_stream, create_entry with a role the table admits on an existing
\* stream, and create_pending_block on an existing stream succeed and store the
\* record they return.  (A step of the clock keeps the last return; the calls
\* are the steps that leave the clock alone.)
C34_CreateSucceedsOnEitherSchema ==
    [][(/\ now' = now
        /\ \/ ret'.op = "create_stream"
           \/ /\ ret'.op = "create_entry"
              /\ ret'.args[1] \in StreamIds
              /\ ret'.args[2] \in {"user", "ai"}
           \/ /\ ret'.op = "create_pending_block"
              /\ ret'.args[1] \in StreamIds) =>
         /\ ret'.ok
         /\ <<streams, entries, pending_blocks>>' # <<streams, entries, pending_blocks>>]_vars

====
